---- MODULE Spec2Model ----
(***************************************************************************)
(* A model of json-explorer (src/src/main.rs): the JsonExplorer struct,    *)
(* its methods load_file, navigate_to_path, go_back, update_selected_json  *)
(* and the click handlers of render_json_tree and update.                  *)
(*                                                                         *)
(* Text (Rust String) is a sequence of one-character strings, so that      *)
(* joining, parsing and formatting are computed and not assumed.           *)
(***************************************************************************)
EXTENDS Integers, Sequences, FiniteSets, TLC

VARIABLES root_data, current_data, navigation_path, current_file_path,
          selected_json, expanded_nodes, show_node_types, show_node_values,
          ev, clicked_scalar, panicked

vars == <<root_data, current_data, navigation_path, current_file_path,
          selected_json, expanded_nodes, show_node_types, show_node_values, ev,
          clicked_scalar, panicked>>

\* Bound on the number of entries of the expanded_nodes map.
MaxExpanded == 2

-----------------------------------------------------------------------------
(* serde_json::Value and Option<Value> *)

\* Option::None
None == [t |-> "none"]

Null == [t |-> "null"]

Bool(b) == [t |-> "bool", b |-> b]

Num(n) == [t |-> "num", n |-> n]

Str(s) == [t |-> "str", s |-> s]

Arr(items) == [t |-> "arr", items |-> items]

\* An object: its keys (distinct) and, position by position, their values.
Obj(keys, vals) == [t |-> "obj", keys |-> keys, vals |-> vals]

\* Some(path) of Option<PathBuf>
SomePath(path) == [t |-> "path", path |-> path]

IsContainer(v) == v.t \in {"obj", "arr"}

\* obj.get(&key): Some(value) or None
ObjGet(obj, key) ==
    IF \E i \in 1..Len(obj.keys) : obj.keys[i] = key
    THEN obj.vals[CHOOSE i \in 1..Len(obj.keys) : obj.keys[i] = key]
    ELSE None

\* arr.get(index): Some(value) or None, index counted from 0
ArrGet(arr, index) ==
    IF index < Len(arr.items) THEN arr.items[index + 1] ELSE None

-----------------------------------------------------------------------------
(* Text helpers *)

DigitChars == <<"0", "1", "2", "3", "4", "5", "6", "7", "8", "9">>

IsDigit(c) == \E d \in 1..10 : DigitChars[d] = c

DigitVal(c) == (CHOOSE d \in 1..10 : DigitChars[d] = c) - 1

RECURSIVE DigitsValue(_)
DigitsValue(ds) ==
    IF ds = <<>> THEN 0
    ELSE 10 * DigitsValue(SubSeq(ds, 1, Len(ds) - 1)) + DigitVal(ds[Len(ds)])

\* key.parse::<usize>(): an optional '+', then one or more decimal digits.
\* (Texts here are far shorter than the 20 digits at which usize overflows.)
ParseUsize(key) ==
    LET digits == IF key # <<>> /\ key[1] = "+" THEN Tail(key) ELSE key
    IN  IF digits # <<>> /\ \A i \in 1..Len(digits) : IsDigit(digits[i])
        THEN [ok |-> TRUE, index |-> DigitsValue(digits)]
        ELSE [ok |-> FALSE]

\* The decimal text of a natural number (Display for integers).
RECURSIVE NatToString(_)
NatToString(n) ==
    IF n < 10 THEN <<DigitChars[n + 1]>>
    ELSE NatToString(n \div 10) \o <<DigitChars[(n % 10) + 1]>>

IntToString(n) == IF n < 0 THEN <<"-">> \o NatToString(-n) ELSE NatToString(n)

\* Characters.  A printable ASCII character is written as itself, and so
\* are "\n", "\t", "\r" and "\f"; every other character is written by its
\* code point: "U+" and four to six hexadecimal digits, as in "U+00E9",
\* "U+0008" or "U+1F600".
HexDigits ==
    <<"0", "1", "2", "3", "4", "5", "6", "7", "8", "9",
      "A", "B", "C", "D", "E", "F">>

\* The four-digit name of the code point n, for n below 0x10000
CodePointToken(n) ==
    "U+" \o HexDigits[((n \div 4096) % 16) + 1]
         \o HexDigits[((n \div 256) % 16) + 1]
         \o HexDigits[((n \div 16) % 16) + 1]
         \o HexDigits[(n % 16) + 1]

\* U+0000..U+007F, U+0080..U+07FF and U+0000..U+001F
OneByteTokens == { CodePointToken(n) : n \in 0..127 }

TwoByteTokens == { CodePointToken(n) : n \in 128..2047 }

ControlTokens == { CodePointToken(n) : n \in 0..31 }

\* char::len_utf8: 1 byte below U+0080, 2 below U+0800, 3 below U+10000
\* (the other names of four digits), 4 from there on (names of five or six
\* digits).
ByteLen(c) ==
    IF Len(c) < 6 THEN 1
    ELSE IF c \in OneByteTokens THEN 1
    ELSE IF c \in TwoByteTokens THEN 2
    ELSE IF Len(c) = 6 THEN 3
    ELSE 4

\* The number of bytes of the first k characters of s
RECURSIVE BytesUpTo(_, _)
BytesUpTo(s, k) ==
    IF k = 0 THEN 0 ELSE BytesUpTo(s, k - 1) + ByteLen(s[k])

\* String::len(): the length in bytes
StrByteLen(s) == BytesUpTo(s, Len(s))

\* The characters of s counted from the first until their bytes reach n or
\* s ends: after k characters, bytes bytes
RECURSIVE CharsToByte(_, _, _, _)
CharsToByte(s, n, k, bytes) ==
    IF bytes >= n \/ k = Len(s) THEN [k |-> k, bytes |-> bytes]
    ELSE CharsToByte(s, n, k + 1, bytes + ByteLen(s[k + 1]))

\* str::is_char_boundary(n)
IsCharBoundary(s, n) == CharsToByte(s, n, 0, 0).bytes = n

\* &s[..n], for n a character boundary of s
ByteSlice(s, n) == SubSeq(s, 1, CharsToByte(s, n, 0, 0).k)

\* [String]::join(sep)
RECURSIVE Join(_, _)
Join(parts, sep) ==
    IF parts = <<>> THEN <<>>
    ELSE IF Len(parts) = 1 THEN parts[1]
    ELSE parts[1] \o sep \o Join(Tail(parts), sep)

-----------------------------------------------------------------------------
(* serde_json::to_string_pretty: two-space indentation, one member or   *)
(* element per line, "[]" and "{}" for empty containers.                *)

Indent(n) == [i \in 1..(2 * n) |-> " "]

\* The digits serde_json writes in a \u escape
LowerHexDigits ==
    <<"0", "1", "2", "3", "4", "5", "6", "7", "8", "9",
      "a", "b", "c", "d", "e", "f">>

\* The characters with an escape of two characters, and all the
\* characters with an escape
ShortEscaped ==
    {"\"", "\\", "\n", "U+000A", "\t", "U+0009", "\r", "U+000D",
     "\f", "U+000C", "U+0008"}

Escaped == ShortEscaped \cup ControlTokens

\* The JSON escape of a character: the quote, the backslash and the
\* characters below U+0020 are escaped, the latter as \b, \t, \n, \f, \r
\* or \u00XX.
EscapeChar(c) ==
    IF c \notin Escaped THEN <<c>>
    ELSE IF c \notin ShortEscaped
    THEN LET n == CHOOSE n \in 0..31 : CodePointToken(n) = c
         IN  <<"\\", "u", "0", "0", LowerHexDigits[(n \div 16) + 1],
               LowerHexDigits[(n % 16) + 1]>>
    ELSE CASE c = "\"" -> <<"\\", "\"">>
           [] c = "\\" -> <<"\\", "\\">>
           [] c \in {"\n", "U+000A"} -> <<"\\", "n">>
           [] c \in {"\t", "U+0009"} -> <<"\\", "t">>
           [] c \in {"\r", "U+000D"} -> <<"\\", "r">>
           [] c \in {"\f", "U+000C"} -> <<"\\", "f">>
           [] c = "U+0008" -> <<"\\", "b">>

\* The JSON escapes of a string's characters: the string itself when none
\* of them has an escape.
RECURSIVE EscapeStr(_)
EscapeStr(s) ==
    IF \A i \in 1..Len(s) : s[i] \notin Escaped THEN s
    ELSE EscapeChar(Head(s)) \o EscapeStr(Tail(s))

Quoted(s) == <<"\"">> \o EscapeStr(s) \o <<"\"">>

RECURSIVE PrettyAt(_, _)
RECURSIVE PrettyItems(_, _, _)
RECURSIVE PrettyMembers(_, _, _)

PrettyItems(arr, i, ind) ==
    IF i > Len(arr.items) THEN <<>>
    ELSE (IF i = 1 THEN <<"\n">> ELSE <<",", "\n">>)
         \o Indent(ind) \o PrettyAt(arr.items[i], ind)
         \o PrettyItems(arr, i + 1, ind)

PrettyMembers(obj, i, ind) ==
    IF i > Len(obj.keys) THEN <<>>
    ELSE (IF i = 1 THEN <<"\n">> ELSE <<",", "\n">>)
         \o Indent(ind) \o Quoted(obj.keys[i]) \o <<":", " ">>
         \o PrettyAt(obj.vals[i], ind)
         \o PrettyMembers(obj, i + 1, ind)

PrettyAt(v, ind) ==
    CASE v.t = "null" -> <<"n", "u", "l", "l">>
      [] v.t = "bool" -> IF v.b THEN <<"t", "r", "u", "e">>
                         ELSE <<"f", "a", "l", "s", "e">>
      [] v.t = "num" -> IntToString(v.n)
      [] v.t = "str" -> Quoted(v.s)
      [] v.t = "arr" ->
            IF v.items = <<>> THEN <<"[", "]">>
            ELSE <<"[">> \o PrettyItems(v, 1, ind + 1)
                 \o <<"\n">> \o Indent(ind) \o <<"]">>
      [] v.t = "obj" ->
            IF v.keys = <<>> THEN <<"{", "}">>
            ELSE <<"{">> \o PrettyMembers(v, 1, ind + 1)
                 \o <<"\n">> \o Indent(ind) \o <<"}">>

\* Serialising a Value cannot fail (its keys are strings), so the
\* "Error formatting JSON" placeholder of unwrap_or_else is never produced.
to_string_pretty(v) == PrettyAt(v, 0)

-----------------------------------------------------------------------------
(* The files the file dialog can return.  A file is unreadable, or holds *)
(* text that serde_json::from_str rejects, or holds a JSON document.     *)

DocA ==
    Obj(<< <<"a">> >>,
        << Arr(<< Num(1), Num(2), Obj(<< <<"b">> >>, << Str(<<"x">>) >>) >>) >>)

DocB ==
    Obj(<< <<"a">>, <<"b">> >>,
        << Obj(<< <<"a">> >>, << Arr(<< Bool(TRUE) >>) >>), Null >>)

DocC == Num(7)

\* {"": [], "_": {"b": []}, "_b": []}: an empty key, and keys that contain
\* the separator of node_id
DocD ==
    Obj(<< <<>>, <<"_">>, <<"_", "b">> >>,
        << Arr(<<>>), Obj(<< <<"b">> >>, << Arr(<<>>) >>), Arr(<<>>) >>)

\* {"s": <60 times x>, "t": <40 times x>, "u": "a" and 25 times e-acute}:
\* the value text of u has 28 characters and 53 bytes, byte 50 between two
\* characters
DocE ==
    Obj(<< <<"s">>, <<"t">>, <<"u">> >>,
        << Str([i \in 1..60 |-> "x"]),
           Str([i \in 1..40 |-> "x"]),
           Str(<<"a">> \o [i \in 1..25 |-> "U+00E9"]) >>)

\* {"v": <26 times e-acute>}: the value text has 28 characters and 54
\* bytes, byte 50 inside a character
DocF == Obj(<< <<"v">> >>, << Str([i \in 1..26 |-> "U+00E9"]) >>)

\* {"a": {"b": {"v": <26 times e-acute>}}, "b": {"x": "\r\u0001"}}: the
\* string that cannot be cut lies two levels below a member whose key is
\* also a key of the root, where it names an object that can be drawn; the
\* string of x has two control characters
DocG ==
    Obj(<< <<"a">>, <<"b">> >>,
        << Obj(<< <<"b">> >>,
               << Obj(<< <<"v">> >>, << Str([i \in 1..26 |-> "U+00E9"]) >>) >>),
           Obj(<< <<"x">> >>, << Str(<<"\r", "U+0001">>) >>) >>)

Paths ==
    {"missing.json", "broken.json", "a.json", "b.json", "c.json", "d.json",
     "e.json", "f.json", "g.json"}

\* std::fs::read_to_string(&path): Ok(content) or Err
read_to_string(path) ==
    IF path = "missing.json" THEN [ok |-> FALSE]
    ELSE [ok |-> TRUE, content |-> path]

\* serde_json::from_str(&content): Ok(value) or Err, by the file's content
from_str(content) ==
    CASE content = "a.json" -> [ok |-> TRUE, value |-> DocA]
      [] content = "b.json" -> [ok |-> TRUE, value |-> DocB]
      [] content = "c.json" -> [ok |-> TRUE, value |-> DocC]
      [] content = "d.json" -> [ok |-> TRUE, value |-> DocD]
      [] content = "e.json" -> [ok |-> TRUE, value |-> DocE]
      [] content = "f.json" -> [ok |-> TRUE, value |-> DocF]
      [] content = "g.json" -> [ok |-> TRUE, value |-> DocG]
      [] OTHER -> [ok |-> FALSE]

-----------------------------------------------------------------------------
(* The JsonExplorer struct and its methods, as functions of the struct. *)

Self ==
    [root_data |-> root_data, current_data |-> current_data,
     navigation_path |-> navigation_path,
     current_file_path |-> current_file_path,
     selected_json |-> selected_json, expanded_nodes |-> expanded_nodes,
     show_node_types |-> show_node_types,
     show_node_values |-> show_node_values]

\* The empty HashMap
EmptyMap == [id \in {} |-> FALSE]

\* JsonExplorer::new()
new ==
    [root_data |-> None, current_data |-> None, navigation_path |-> <<>>,
     current_file_path |-> None, selected_json |-> <<>>,
     expanded_nodes |-> EmptyMap,
     show_node_types |-> FALSE, show_node_values |-> FALSE]

update_selected_json(self) ==
    IF self.current_data # None
    THEN [self EXCEPT !.selected_json = to_string_pretty(self.current_data)]
    ELSE self

\* Mutants of load_file: the reset done before the file is read and parsed;
\* the navigation path kept; the expansion state kept.
load_file_resets_first(self, path) ==
    LET content == read_to_string(path)
        cleared == [self EXCEPT !.navigation_path = <<>>,
                                !.expanded_nodes = EmptyMap]
    IN  IF ~content.ok THEN [self |-> cleared, result |-> "io_error"]
        ELSE LET data == from_str(content.content)
             IN  IF ~data.ok THEN [self |-> cleared, result |-> "parse_error"]
                 ELSE [self |-> update_selected_json(
                                  [cleared EXCEPT !.root_data = data.value,
                                                  !.current_data = data.value,
                                                  !.current_file_path = SomePath(path)]),
                       result |-> "ok"]

load_file_keeps_path(self, path) ==
    LET content == read_to_string(path)
    IN  IF ~content.ok THEN [self |-> self, result |-> "io_error"]
        ELSE LET data == from_str(content.content)
             IN  IF ~data.ok THEN [self |-> self, result |-> "parse_error"]
                 ELSE [self |-> update_selected_json(
                                  [self EXCEPT !.root_data = data.value,
                                               !.current_data = data.value,
                                               !.current_file_path = SomePath(path),
                                               !.expanded_nodes = EmptyMap]),
                       result |-> "ok"]

load_file_keeps_expansion(self, path) ==
    LET content == read_to_string(path)
    IN  IF ~content.ok THEN [self |-> self, result |-> "io_error"]
        ELSE LET data == from_str(content.content)
             IN  IF ~data.ok THEN [self |-> self, result |-> "parse_error"]
                 ELSE [self |-> update_selected_json(
                                  [self EXCEPT !.root_data = data.value,
                                               !.current_data = data.value,
                                               !.current_file_path = SomePath(path),
                                               !.navigation_path = <<>>]),
                       result |-> "ok"]

load_file(self, path) ==
    LET content == read_to_string(path)
    IN  IF ~content.ok THEN [self |-> self, result |-> "io_error"]
        ELSE LET data == from_str(content.content)
             IN  IF ~data.ok THEN [self |-> self, result |-> "parse_error"]
                 ELSE [self |-> update_selected_json(
                                  [self EXCEPT !.root_data = data.value,
                                               !.current_data = data.value,
                                               !.current_file_path = SomePath(path),
                                               !.navigation_path = <<>>,
                                               !.expanded_nodes = EmptyMap]),
                       result |-> "ok"]

\* Mutant of WalkPath: in an array the key is pushed as soon as it parses,
\* before arr.get decides whether the index is in bounds.
RECURSIVE WalkPath_pushes_before_get(_, _, _)
WalkPath_pushes_before_get(current, rest, valid_path) ==
    LET stop == [current |-> current, valid_path |-> valid_path, steps |-> 1]
    IN  IF rest = <<>>
        THEN [current |-> current, valid_path |-> valid_path, steps |-> 0]
        ELSE LET key == Head(rest)
             IN  CASE current.t = "obj" ->
                        LET value == ObjGet(current, key)
                        IN  IF value # None
                            THEN [WalkPath_pushes_before_get(
                                      value, Tail(rest), Append(valid_path, key))
                                  EXCEPT !.steps = @ + 1]
                            ELSE stop
                   [] current.t = "arr" ->
                        LET parsed == ParseUsize(key)
                        IN  IF parsed.ok
                            THEN LET value == ArrGet(current, parsed.index)
                                 IN  IF value # None
                                     THEN [WalkPath_pushes_before_get(
                                               value, Tail(rest),
                                               Append(valid_path, key))
                                           EXCEPT !.steps = @ + 1]
                                     ELSE [current |-> current,
                                           valid_path |-> Append(valid_path, key),
                                           steps |-> 1]
                            ELSE stop
                   [] OTHER -> stop

\* The for loop of navigate_to_path: `rest` is what is left of the
\* requested path, `valid_path` what has been accepted so far.  `steps`
\* counts the iterations of the loop, the one that breaks included.
RECURSIVE WalkPath(_, _, _)
WalkPath(current, rest, valid_path) ==
    LET stop == [current |-> current, valid_path |-> valid_path, steps |-> 1]
    IN  IF rest = <<>>
        THEN [current |-> current, valid_path |-> valid_path, steps |-> 0]
        ELSE LET key == Head(rest)
             IN  CASE current.t = "obj" ->
                        LET value == ObjGet(current, key)
                        IN  IF value # None
                            THEN [WalkPath(value, Tail(rest),
                                           Append(valid_path, key))
                                  EXCEPT !.steps = @ + 1]
                            ELSE stop
                   [] current.t = "arr" ->
                        LET parsed == ParseUsize(key)
                        IN  IF parsed.ok
                            THEN LET value == ArrGet(current, parsed.index)
                                 IN  IF value # None
                                     THEN [WalkPath(value, Tail(rest),
                                                    Append(valid_path, key))
                                           EXCEPT !.steps = @ + 1]
                                     ELSE stop
                            ELSE stop
                   [] OTHER -> stop

\* Mutant of navigate_to_path: the path is resolved from the current
\* subtree instead of the root.
navigate_to_path_from_current(self, path) ==
    IF self.root_data # None
    THEN LET w == WalkPath(self.current_data, path, <<>>)
         IN  update_selected_json(
                 [self EXCEPT !.navigation_path = w.valid_path,
                              !.current_data = w.current])
    ELSE self

\* Mutant of navigate_to_path: without a document the requested path is
\* taken as it is.
navigate_to_path_unloaded_takes_path(self, path) ==
    IF self.root_data # None
    THEN LET w == WalkPath(self.root_data, path, <<>>)
         IN  update_selected_json(
                 [self EXCEPT !.navigation_path = w.valid_path,
                              !.current_data = w.current])
    ELSE [self EXCEPT !.navigation_path = path]

\* The iterations navigate_to_path makes for a path
navigate_steps(self, path) ==
    IF self.root_data # None
    THEN WalkPath(self.root_data, path, <<>>).steps
    ELSE 0

\* Mutant of navigate_to_path: the document is re-rooted in place, the
\* resolved value becoming the root.
navigate_to_path_replaces_root(self, path) ==
    IF self.root_data # None
    THEN LET w == WalkPath(self.root_data, path, <<>>)
         IN  update_selected_json(
                 [self EXCEPT !.navigation_path = w.valid_path,
                              !.current_data = w.current,
                              !.root_data = w.current])
    ELSE self

navigate_to_path(self, path) ==
    IF self.root_data # None
    THEN LET w == WalkPath(self.root_data, path, <<>>)
         IN  update_selected_json(
                 [self EXCEPT !.navigation_path = w.valid_path,
                              !.current_data = w.current])
    ELSE self

\* Mutants of go_back: the pop without the re-resolution; the re-resolution
\* without the pop; the two without the test for an empty path.
go_back_pop_only(self) ==
    IF self.navigation_path # <<>>
    THEN [self EXCEPT !.navigation_path = SubSeq(@, 1, Len(@) - 1)]
    ELSE self

go_back_no_pop(self) ==
    IF self.navigation_path # <<>>
    THEN navigate_to_path(self, self.navigation_path)
    ELSE self

go_back_unguarded(self) ==
    LET popped == [self EXCEPT !.navigation_path =
                       IF @ = <<>> THEN @ ELSE SubSeq(@, 1, Len(@) - 1)]
    IN  navigate_to_path(popped, popped.navigation_path)

go_back(self) ==
    IF self.navigation_path # <<>>
    THEN LET popped == [self EXCEPT !.navigation_path =
                            SubSeq(@, 1, Len(@) - 1)]
         IN  navigate_to_path(popped, popped.navigation_path)
    ELSE self

\* The "Go Back" button of update
go_back_button(self, clicked) ==
    IF clicked /\ self.navigation_path # <<>> THEN go_back(self) ELSE self

-----------------------------------------------------------------------------
(* render_json_tree: the rows it draws and what a click on a row does. *)

\* format!("{}_{}", path.join("_"), key)
node_id(path, key) == Join(path, <<"_">>) \o <<"_">> \o key

\* *self.expanded_nodes.get(&node_id).unwrap_or(&false)
is_expanded(self, id) ==
    IF id \in DOMAIN self.expanded_nodes THEN self.expanded_nodes[id] ELSE FALSE

\* HashMap::insert
MapInsert(map, id, flag) ==
    [x \in (DOMAIN map) \cup {id} |-> IF x = id THEN flag ELSE map[x]]

\* The path handed to the children, and to navigate_to_path on a double click
child_path(path, key) == IF key # <<>> THEN Append(path, key) ELSE path

\* format!("[{}]", i)
IndexKey(i) == <<"[">> \o NatToString(i) \o <<"]">>

\* The rows one call render_json_tree(ui, value, key, path) draws.  A row
\* carries the arguments of its call and, in `segs`, where its value lies
\* under the displayed value: the object keys and array indices leading to it.
RECURSIVE RenderRows(_, _, _, _, _)
RenderRows(self, value, key, path, segs) ==
    LET row == [value |-> value, key |-> key, path |-> path, segs |-> segs]
        open == is_expanded(self, node_id(path, key))
    IN  CASE value.t = "obj" ->
               {row} \cup
               (IF open
                THEN UNION { RenderRows(self, value.vals[i], value.keys[i],
                                        child_path(path, key),
                                        Append(segs, value.keys[i]))
                             : i \in 1..Len(value.keys) }
                ELSE {})
          [] value.t = "arr" ->
               {row} \cup
               (IF open
                THEN UNION { RenderRows(self, value.items[i], IndexKey(i - 1),
                                        child_path(path, key),
                                        Append(segs, NatToString(i - 1)))
                             : i \in 1..Len(value.items) }
                ELSE {})
          [] OTHER -> {row}

\* The rows render_json_tree(ui, value, key, path) has to draw once every
\* container is expanded: one per node of the value.
RECURSIVE AllRows(_, _, _, _)
AllRows(value, key, path, segs) ==
    LET row == [value |-> value, key |-> key, path |-> path, segs |-> segs]
    IN  CASE value.t = "obj" ->
               {row} \cup
               UNION { AllRows(value.vals[i], value.keys[i],
                               child_path(path, key),
                               Append(segs, value.keys[i]))
                       : i \in 1..Len(value.keys) }
          [] value.t = "arr" ->
               {row} \cup
               UNION { AllRows(value.items[i], IndexKey(i - 1),
                               child_path(path, key),
                               Append(segs, NatToString(i - 1)))
                       : i \in 1..Len(value.items) }
          [] OTHER -> {row}

\* The nodes of the displayed tree
Nodes(self) ==
    IF self.current_data # None
    THEN AllRows(self.current_data, <<>>, <<>>, <<>>)
    ELSE {}

\* update: render_json_tree(ui, &data, "", vec![]) on a clone of current_data
Rows(self) ==
    IF self.current_data # None
    THEN RenderRows(self, self.current_data, <<>>, <<>>, <<>>)
    ELSE {}

\* The byte length above which a scalar's value text is cut, and the byte
\* index at which it is cut
TruncateAt == 50

\* (type_str, value_str) of a scalar row
type_str(value) ==
    CASE value.t = "str" -> <<"s", "t", "r", "i", "n", "g">>
      [] value.t = "num" -> <<"n", "u", "m", "b", "e", "r">>
      [] value.t = "bool" -> <<"b", "o", "o", "l", "e", "a", "n">>
      [] value.t = "null" -> <<"n", "u", "l", "l">>

value_str(value) ==
    CASE value.t = "str" -> <<"\"">> \o value.s \o <<"\"">>
      [] value.t = "num" -> IntToString(value.n)
      [] value.t = "bool" -> IF value.b THEN <<"t", "r", "u", "e">>
                             ELSE <<"f", "a", "l", "s", "e">>
      [] value.t = "null" -> <<"n", "u", "l", "l">>

\* display_value: &value_str[..50] panics when byte 50 lies inside a
\* character
display_value(text) ==
    IF StrByteLen(text) > TruncateAt
    THEN IF IsCharBoundary(text, TruncateAt)
         THEN [panic |-> FALSE,
               text |-> ByteSlice(text, TruncateAt) \o <<".", ".", ".">>]
         ELSE [panic |-> TRUE]
    ELSE [panic |-> FALSE, text |-> text]

RootLabel == <<"R", "o", "o", "t">>

\* display_text of the header of an object or array
header_text(self, row) ==
    LET icon == IF is_expanded(self, node_id(row.path, row.key))
                THEN <<"U+25BC">> ELSE <<"U+25B6">>
        name == IF row.key = <<>> THEN RootLabel ELSE row.key
        kind == IF row.value.t = "obj"
                THEN <<"o", "b", "j", "e", "c", "t">>
                ELSE <<"a", "r", "r", "a", "y">>
        count == IF row.value.t = "obj" THEN Len(row.value.keys)
                 ELSE Len(row.value.items)
    IN  IF self.show_node_types
        THEN icon \o <<" ">> \o name \o <<" ", "(">> \o kind \o <<",", " ">>
             \o NatToString(count)
             \o <<" ", "i", "t", "e", "m", "s", ")">>
        ELSE icon \o <<" ">> \o name

\* display_text of a scalar row; the value text is computed, and cut,
\* whatever the display options are
scalar_text(self, row) ==
    LET shown == display_value(value_str(row.value))
        display_key == IF row.key = <<>> THEN RootLabel ELSE row.key
        kind == <<" ", "(">> \o type_str(row.value) \o <<")">>
    IN  IF shown.panic THEN [panic |-> TRUE]
        ELSE [panic |-> FALSE,
              text |->
                <<" ", " ">> \o display_key
                \o (IF self.show_node_types THEN kind ELSE <<>>)
                \o (IF self.show_node_values THEN <<" ">> \o shown.text
                    ELSE <<>>)]

\* Whether drawing `rows` panics: some scalar row among them has a value
\* text that cannot be cut
RowsPanic(rows) ==
    \E row \in rows :
        ~IsContainer(row.value) /\ display_value(value_str(row.value)).panic

\* Whether drawing the tree of the struct panics
RenderPanics(self) == RowsPanic(Rows(self))

\* The "Raw JSON View" pane: a TextEdit on &mut self.selected_json, which
\* holds what the user has typed
text_edit(self, typed) == [self EXCEPT !.selected_json = typed]

\* Whether the node at `segs` is the node at `under` or lies below it
Within(segs, under) ==
    Len(under) <= Len(segs) /\ SubSeq(segs, 1, Len(under)) = under

\* The rows drawn in the frame in which the row `hit` is clicked.  The
\* value drawn is the clone of current_data taken before the call; the rows
\* drawn before `hit` find the map as it was (`self`); the handler of `hit`
\* runs at its row, and the expansion of `hit`, read again after it, and
\* every row drawn later find the struct the handler left (`after`).
\* `passed` tells whether `hit` was drawn before this call, and is kept in
\* the row.
RECURSIVE FrameRows(_, _, _, _, _, _, _, _)
FrameRows(self, after, hit, value, key, path, segs, passed) ==
    LET row == [value |-> value, key |-> key, path |-> path, segs |-> segs,
                passed |-> passed]
        here == segs = hit.segs
        now == IF passed \/ here THEN after ELSE self
        open == is_expanded(now, node_id(path, key))
        ChildSegs(i) == IF value.t = "obj" THEN Append(segs, value.keys[i])
                        ELSE Append(segs, NatToString(i - 1))
        Passed(i) == \/ passed
                     \/ here
                     \/ \E j \in 1..(i - 1) : Within(hit.segs, ChildSegs(j))
    IN  CASE value.t = "obj" ->
               {row} \cup
               (IF open
                THEN UNION { FrameRows(self, after, hit, value.vals[i],
                                       value.keys[i], child_path(path, key),
                                       ChildSegs(i), Passed(i))
                             : i \in 1..Len(value.keys) }
                ELSE {})
          [] value.t = "arr" ->
               {row} \cup
               (IF open
                THEN UNION { FrameRows(self, after, hit, value.items[i],
                                       IndexKey(i - 1), child_path(path, key),
                                       ChildSegs(i), Passed(i))
                             : i \in 1..Len(value.items) }
                ELSE {})
          [] OTHER -> {row}

\* Whether the frame panics before the click on the row `hit` is handled:
\* while it draws the rows above `hit`, or the text of `hit` itself
PanicsBefore(self, hit) ==
    RowsPanic({ row \in FrameRows(self, self, hit, self.current_data,
                                  <<>>, <<>>, <<>>, FALSE) : ~row.passed })

\* Whether the frame in which the row `hit` is clicked panics
FramePanics(self, after, hit) ==
    RowsPanic(FrameRows(self, after, hit, self.current_data,
                        <<>>, <<>>, <<>>, FALSE))

\* Mutant of toggle_show_node_types: the option change also collapses the
\* tree.
toggle_show_node_types_collapses(self) ==
    [self EXCEPT !.show_node_types = ~@, !.expanded_nodes = EmptyMap]

\* The two checkboxes of the View menu
toggle_show_node_types(self) == [self EXCEPT !.show_node_types = ~@]

toggle_show_node_values(self) == [self EXCEPT !.show_node_values = ~@]

\* The header row of an object or array: response.clicked() and
\* response.double_clicked() of its selectable label.
header_response(self, row, clicked, double_clicked) ==
    LET id == node_id(row.path, row.key)
        toggled == IF clicked
                   THEN [self EXCEPT !.expanded_nodes =
                             MapInsert(@, id, ~is_expanded(self, id))]
                   ELSE self
    IN  IF double_clicked
        THEN navigate_to_path(toggled, child_path(row.path, row.key))
        ELSE toggled

\* The row of a scalar: response.clicked() of its selectable label.
scalar_response(self, row, clicked) ==
    IF clicked
    THEN [self EXCEPT !.selected_json = to_string_pretty(row.value)]
    ELSE self

-----------------------------------------------------------------------------
(* The state machine.  ev records the last event: the operation, its     *)
(* arguments and, where a property needs it, the navigation path before. *)
(* clicked_scalar records the scalar clicked last, if one was clicked    *)
(* since the last successful load or navigation.  panicked tells whether *)
(* a frame has panicked while it drew the tree.                          *)
(*                                                                       *)
(* A step of the user interface is one frame, one call of update: the    *)
(* menu and the control bar, then the tree, then the text pane, with the *)
(* handler of the frame's event run where its widget is drawn.           *)
(* NavigateTo and GoBack are the two methods called on their own.        *)

\* The paths handed to navigate_to_path
CandidatePaths ==
    { <<>>,
      << <<"a">> >>,
      << <<"b">> >>,
      << <<"z">> >>,
      << <<"a">>, <<"a">> >>,
      << <<"a">>, <<"2">> >>,
      << <<"a">>, <<"9">> >>,
      << <<"a">>, <<"+", "1">> >>,
      << <<"a">>, <<"[", "2", "]">> >>,
      << <<"a">>, <<"a">>, <<"0">> >>,
      << <<"a">>, <<"2">>, <<"b">> >>,
      << <<"a">>, <<"2">>, <<"b">>, <<"z">> >> }

\* The texts typed into the "Raw JSON View" pane
TypedTexts == { <<"h", "e", "l", "l", "o">> }

Set(self) ==
    /\ root_data' = self.root_data
    /\ current_data' = self.current_data
    /\ navigation_path' = self.navigation_path
    /\ current_file_path' = self.current_file_path
    /\ selected_json' = self.selected_json
    /\ expanded_nodes' = self.expanded_nodes
    /\ show_node_types' = self.show_node_types
    /\ show_node_values' = self.show_node_values

Init ==
    /\ root_data = new.root_data
    /\ current_data = new.current_data
    /\ navigation_path = new.navigation_path
    /\ current_file_path = new.current_file_path
    /\ selected_json = new.selected_json
    /\ expanded_nodes = new.expanded_nodes
    /\ show_node_types = new.show_node_types
    /\ show_node_values = new.show_node_values
    /\ ev = [op |-> "new"]
    /\ clicked_scalar = None
    /\ panicked = FALSE

\* The application runs until a frame panics while the tree is drawn
Running == ~panicked

\* "Load JSON File": the dialog returns a path and load_file runs; the
\* tree is drawn after it
LoadFile ==
    /\ Running
    /\ \E path \in Paths :
        LET r == load_file(Self, path)
        IN  /\ Set(r.self)
            /\ ev' = [op |-> "load_file", path |-> path, result |-> r.result,
                      from |-> navigation_path]
            /\ clicked_scalar' = IF r.result = "ok" THEN None ELSE clicked_scalar
            /\ panicked' = RenderPanics(r.self)

NavigateTo ==
    /\ Running
    /\ \E path \in CandidatePaths :
        /\ Set(navigate_to_path(Self, path))
        /\ ev' = [op |-> "navigate_to_path", path |-> path,
                  steps |-> navigate_steps(Self, path),
                  again |-> (ev.op = "navigate_to_path" /\ ev.path = path)]
        /\ clicked_scalar' = IF root_data # None THEN None ELSE clicked_scalar
        /\ UNCHANGED panicked

GoBack ==
    /\ Running
    /\ Set(go_back(Self))
    /\ ev' = [op |-> "go_back", from |-> navigation_path]
    /\ clicked_scalar' = IF navigation_path # <<>> THEN None ELSE clicked_scalar
    /\ UNCHANGED panicked

\* The "Go Back" button of the control bar; the tree is drawn after it
GoBackButton ==
    /\ Running
    /\ LET after == go_back_button(Self, TRUE)
       IN  /\ Set(after)
           /\ panicked' = RenderPanics(after)
    /\ ev' = [op |-> "go_back_button", from |-> navigation_path]
    /\ clicked_scalar' = IF navigation_path # <<>> THEN None ELSE clicked_scalar

\* The map stays within MaxExpanded entries
Fits(id) == Cardinality((DOMAIN expanded_nodes) \cup {id}) <= MaxExpanded

\* A single click on a header: clicked() alone.  The rows above it have
\* been drawn when the click is handled.
ClickHeader ==
    /\ Running
    /\ \E row \in Rows(Self) :
        /\ IsContainer(row.value)
        /\ Fits(node_id(row.path, row.key))
        /\ ~PanicsBefore(Self, row)
        /\ LET after == header_response(Self, row, TRUE, FALSE)
           IN  /\ Set(after)
               /\ panicked' = FramePanics(Self, after, row)
        /\ ev' = [op |-> "click", row |-> row]
        /\ UNCHANGED clicked_scalar

\* The second click of a double click: egui reports clicked() and
\* double_clicked() in the same frame.  The rest of the frame is drawn from
\* the value displayed before navigate_to_path ran.
DoubleClickHeader ==
    /\ Running
    /\ \E row \in Rows(Self) :
        /\ IsContainer(row.value)
        /\ Fits(node_id(row.path, row.key))
        /\ ~PanicsBefore(Self, row)
        /\ LET after == header_response(Self, row, TRUE, TRUE)
           IN  /\ Set(after)
               /\ panicked' = FramePanics(Self, after, row)
        /\ ev' = [op |-> "double_click", row |-> row, from |-> navigation_path]
        /\ clicked_scalar' = None

\* A click on a scalar row, whose text has been drawn when the click is
\* handled
ClickScalar ==
    /\ Running
    /\ \E row \in Rows(Self) :
        /\ ~IsContainer(row.value)
        /\ ~PanicsBefore(Self, row)
        /\ LET after == scalar_response(Self, row, TRUE)
           IN  /\ Set(after)
               /\ panicked' = FramePanics(Self, after, row)
        /\ ev' = [op |-> "click_scalar", row |-> row]
        /\ clicked_scalar' = row.value

\* The "Show Node Types" checkbox of the View menu; the tree is drawn
\* after it
ToggleNodeTypes ==
    /\ Running
    /\ LET after == toggle_show_node_types(Self)
       IN  /\ Set(after)
           /\ panicked' = RenderPanics(after)
    /\ ev' = [op |-> "toggle_types"]
    /\ UNCHANGED clicked_scalar

\* The "Show Node Values" checkbox
ToggleNodeValues ==
    /\ Running
    /\ LET after == toggle_show_node_values(Self)
       IN  /\ Set(after)
           /\ panicked' = RenderPanics(after)
    /\ ev' = [op |-> "toggle_values"]
    /\ UNCHANGED clicked_scalar

\* The user types into the "Raw JSON View" pane, which is drawn after the
\* tree
EditText ==
    /\ Running
    /\ ~RenderPanics(Self)
    /\ \E typed \in TypedTexts :
        /\ Set(text_edit(Self, typed))
        /\ ev' = [op |-> "text_edit", typed |-> typed]
    /\ UNCHANGED <<clicked_scalar, panicked>>

\* A frame without input: the tree is drawn from the struct as it is
DrawFrame ==
    /\ Running
    /\ Set(Self)
    /\ panicked' = RenderPanics(Self)
    /\ ev' = [op |-> "frame"]
    /\ UNCHANGED clicked_scalar

Next ==
    \/ LoadFile
    \/ NavigateTo
    \/ GoBack
    \/ GoBackButton
    \/ ClickHeader
    \/ DoubleClickHeader
    \/ ClickScalar
    \/ ToggleNodeTypes
    \/ ToggleNodeValues
    \/ EditText
    \/ DrawFrame

Spec == Init /\ [][Next]_vars

-----------------------------------------------------------------------------
(* What the specification calls resolving a path, stated on its own:     *)
(* which segments are valid against a value, and the value a path of     *)
(* valid segments leads to.                                              *)

\* seg is the decimal text of n, with leading zeros or a '+' allowed
IsIndexText(seg, n) ==
    LET digits == IF seg # <<>> /\ seg[1] = "+" THEN Tail(seg) ELSE seg
    IN  /\ digits # <<>>
        /\ \A i \in 1..Len(digits) : IsDigit(digits[i])
        /\ DigitsValue(digits) = n

SegValid(value, seg) ==
    \/ /\ value.t = "obj"
       /\ \E i \in 1..Len(value.keys) : value.keys[i] = seg
    \/ /\ value.t = "arr"
       /\ \E n \in 0..(Len(value.items) - 1) : IsIndexText(seg, n)

Child(value, seg) ==
    IF value.t = "obj"
    THEN value.vals[CHOOSE i \in 1..Len(value.keys) : value.keys[i] = seg]
    ELSE value.items[(CHOOSE n \in 0..(Len(value.items) - 1) :
                          IsIndexText(seg, n)) + 1]

RECURSIVE ValueAt(_, _)
ValueAt(root, path) ==
    IF path = <<>> THEN root
    ELSE Child(ValueAt(root, SubSeq(path, 1, Len(path) - 1)), path[Len(path)])

Prefix(path, n) == SubSeq(path, 1, n)

AllSegmentsValid(root, path) ==
    \A i \in 1..Len(path) : SegValid(ValueAt(root, Prefix(path, i - 1)), path[i])

IsPrefixOf(p, path) == Len(p) <= Len(path) /\ p = Prefix(path, Len(p))

FailedLoad(e) == e.op = "load_file" /\ e.result # "ok"

-----------------------------------------------------------------------------
(* Properties *)

\* C1  Load atomicity: a load that fails (file unreadable, or content that
\* is not JSON) leaves the root document, the current subtree, the
\* navigation path, the expansion state, the selected text and the current
\* file path as they were before the load.
C1_LoadAtomicity ==
    [][FailedLoad(ev') =>
          UNCHANGED <<root_data, current_data, navigation_path,
                      expanded_nodes, selected_json, current_file_path>>]_vars

\* A malformed file was loaded while a document was open, navigated into
\* and with expansion flags set.
C1_Witness ==
    /\ ev.op = "load_file" /\ ev.result = "parse_error"
    /\ root_data # None
    /\ navigation_path # <<>>
    /\ expanded_nodes # EmptyMap

\* C2  Path resolution prefix law: with a document loaded, NavigateTo(path)
\* leaves as navigation path a prefix p of path all of whose segments are
\* valid, and the longest such: p is the whole path, or the next requested
\* segment is invalid against the value at p; the current subtree is the
\* value at p.
C2_PrefixLaw ==
    (ev.op = "navigate_to_path" /\ root_data # None) =>
        LET p == navigation_path
        IN  /\ IsPrefixOf(p, ev.path)
            /\ AllSegmentsValid(root_data, p)
            /\ \/ p = ev.path
               \/ ~SegValid(ValueAt(root_data, p), ev.path[Len(p) + 1])
            /\ current_data = ValueAt(root_data, p)

\* On {"a":[1,2,{"b":"x"}]}, NavigateTo(["a","9"]) gave the path ["a"] and
\* the three-element array.
C2_Witness ==
    /\ ev.op = "navigate_to_path"
    /\ ev.path = << <<"a">>, <<"9">> >>
    /\ root_data = DocA
    /\ navigation_path = << <<"a">> >>
    /\ current_data = DocA.vals[1]
    /\ Len(current_data.items) = 3

\* C3  Double click re-roots at the clicked subtree: after a double click on
\* the header of the container at relative position R under the tree
\* displayed for navigation path P, the navigation path is P followed by R
\* and the current subtree is the clicked value.
C3_DoubleClickReRoots ==
    ev.op = "double_click" =>
        /\ navigation_path = ev.from \o ev.row.segs
        /\ current_data = ev.row.value

\* C4  Navigation path validity: every segment of the navigation path is an
\* existing key, or an in-bounds index, of the value the segments before it
\* lead to from the root; with no document loaded the path is empty.
C4_PathValid ==
    IF root_data = None THEN navigation_path = <<>>
    ELSE AllSegmentsValid(root_data, navigation_path)

\* A path through an object and an array, kept across a step back.
C4_Witness ==
    /\ ev.op = "go_back_button"
    /\ Len(navigation_path) = 2
    /\ ValueAt(root_data, Prefix(navigation_path, 1)).t = "arr"

\* C5  The current subtree is derived state: it is absent exactly when no
\* document is loaded, and otherwise is the value the navigation path leads
\* to from the root.
C5_CurrentIsResolved ==
    /\ (current_data = None) <=> (root_data = None)
    /\ root_data # None => current_data = ValueAt(root_data, navigation_path)

\* The view was re-rooted below the document root by a double click.
C5_Witness ==
    /\ ev.op = "double_click"
    /\ navigation_path # <<>>
    /\ current_data # root_data

\* C6  A successful load resets the navigator: the root is the parsed
\* document, the current subtree is that root, the navigation path and the
\* expansion state are empty (one row, the collapsed root, is drawn) and the
\* selected text is the pretty-printed root.
C6_LoadResets ==
    (ev.op = "load_file" /\ ev.result = "ok") =>
        /\ root_data = from_str(read_to_string(ev.path).content).value
        /\ current_data = root_data
        /\ navigation_path = <<>>
        /\ expanded_nodes = EmptyMap
        /\ Cardinality(Rows(Self)) = 1
        /\ selected_json = to_string_pretty(root_data)

\* A document was loaded over another one that had been navigated into.
C6_Witness ==
    /\ ev.op = "load_file" /\ ev.result = "ok"
    /\ ev.from # <<>>
    /\ root_data = DocB

\* C7  Expansion state is cleared by navigation: after a NavigateTo or
\* GoBack that changes the displayed subtree, no expansion flag set before
\* it remains.
C7_NavigationClearsExpansion ==
    [][(ev'.op \in {"navigate_to_path", "go_back", "go_back_button"}
        /\ current_data' # current_data)
         => (DOMAIN expanded_nodes) \cap (DOMAIN expanded_nodes') = {}]_vars

\* C8  GoBack inverse: GoBack with a non-empty navigation path shortens the
\* path by exactly its last segment and gives the navigation path, current
\* subtree and selected text that NavigateTo of the shortened path gives.
C8_GoBackInverse ==
    [][(ev'.op \in {"go_back", "go_back_button"} /\ navigation_path # <<>>) =>
          LET q == Prefix(navigation_path, Len(navigation_path) - 1)
              r == navigate_to_path(Self, q)
          IN  /\ navigation_path' = q
              /\ current_data' = ValueAt(root_data, q)
              /\ selected_json' = to_string_pretty(ValueAt(root_data, q))
              /\ navigation_path' = r.navigation_path
              /\ current_data' = r.current_data
              /\ selected_json' = r.selected_json]_vars

\* GoBack ran from a path of three segments, all of them valid.
C8_Witness ==
    /\ ev.op = "go_back"
    /\ Len(ev.from) = 3
    /\ navigation_path = Prefix(ev.from, 2)

\* C9  GoBack at the root is a no-op: with an empty navigation path (also
\* with no document loaded) GoBack and the Go Back button leave the root,
\* the current subtree, the navigation path, the expansion state and the
\* selected text unchanged.
C9_GoBackAtRootNoOp ==
    [][(ev'.op \in {"go_back", "go_back_button"} /\ navigation_path = <<>>) =>
          UNCHANGED <<root_data, current_data, navigation_path,
                      expanded_nodes, selected_json>>]_vars

\* GoBack ran at the root while the text pane showed a clicked scalar, not
\* the displayed subtree.
C9_Witness ==
    /\ ev.op = "go_back"
    /\ ev.from = <<>>
    /\ root_data # None
    /\ selected_json # to_string_pretty(current_data)

\* C10  Navigation idempotence: NavigateTo(path) directly after
\* NavigateTo(path) leaves the navigation path, the current subtree and the
\* selected text as the first call left them.
C10_NavigateIdempotent ==
    [][(ev'.op = "navigate_to_path" /\ ev'.again) =>
          UNCHANGED <<navigation_path, current_data, selected_json>>]_vars

\* The same path was requested twice in a row, and was cut to a proper,
\* non-empty prefix.
C10_Witness ==
    /\ ev.op = "navigate_to_path" /\ ev.again
    /\ root_data # None
    /\ navigation_path # <<>>
    /\ navigation_path # ev.path

\* The expansion flag of a node of the displayed tree
Flag(self, row) == is_expanded(self, node_id(row.path, row.key))

\* C11  A single click on a container header toggles that node's expansion
\* flag and leaves the root, the navigation path, the current subtree, the
\* selected text and the expansion flag of every other node unchanged.
C11_SingleClickTogglesOneNode ==
    [][ev'.op = "click" =>
          /\ Flag(Self', ev'.row) = ~Flag(Self, ev'.row)
          /\ UNCHANGED <<root_data, navigation_path, current_data,
                         selected_json>>
          /\ \A n \in Nodes(Self) :
                (IsContainer(n.value) /\ n.segs # ev'.row.segs)
                    => Flag(Self', n) = Flag(Self, n)]_vars

\* C12  Text pane synchronisation: with a document loaded, the selected
\* text is the pretty-printed current subtree, unless a scalar row was
\* clicked since the last successful load, NavigateTo or GoBack, and then it
\* is the pretty-printed scalar clicked last; a navigation or a successful
\* load makes it the pretty-printed current subtree again.
C12_TextPaneInSync ==
    root_data # None =>
        selected_json = IF clicked_scalar = None
                        THEN to_string_pretty(current_data)
                        ELSE to_string_pretty(clicked_scalar)

\* C13  The renderer never aborts: whatever the document, the expansion
\* state and the display options, drawing the tree completes without a
\* panic.
C13_RenderNeverPanics == ~panicked /\ ~RenderPanics(Self)

\* The characters of a text, cut after `n` of them and marked with "..."
CutAtChars(text, n) ==
    IF Len(text) <= n THEN text
    ELSE SubSeq(text, 1, n) \o <<".", ".", ".">>

\* C14  Scalar value truncation: the value text shown for a scalar row is
\* the whole text when it has at most 50 characters, and otherwise its
\* first 50 characters followed by "..."; the length is counted in
\* characters.
C14_TruncatedAtFiftyChars ==
    \A row \in Rows(Self) :
        ~IsContainer(row.value) =>
            LET shown == display_value(value_str(row.value))
            IN  /\ ~shown.panic
                /\ shown.text = CutAtChars(value_str(row.value), TruncateAt)

\* C15  Display-option toggles have no effect on navigation state:
\* toggling show_node_types or show_node_values flips that option and
\* leaves the root, the navigation path, the current subtree, the expansion
\* state and the selected text unchanged, and the same rows are drawn
\* before and after.
C15_TogglesKeepNavigation ==
    [][ev'.op \in {"toggle_types", "toggle_values"} =>
          /\ UNCHANGED <<root_data, navigation_path, current_data,
                         expanded_nodes, selected_json>>
          /\ Rows(Self') = Rows(Self)
          /\ IF ev'.op = "toggle_types"
             THEN /\ show_node_types' = ~show_node_types
                  /\ UNCHANGED show_node_values
             ELSE /\ show_node_values' = ~show_node_values
                  /\ UNCHANGED show_node_types]_vars

\* Values were switched on in a navigated, expanded view, and the label of
\* a scalar row drawn there changed with it.
C15_Witness ==
    /\ ev.op = "toggle_values"
    /\ show_node_values
    /\ navigation_path # <<>>
    /\ expanded_nodes # EmptyMap
    /\ ~RenderPanics(Self)
    /\ \E row \in Rows(Self) :
          /\ ~IsContainer(row.value)
          /\ scalar_text(Self, row).text
               # scalar_text(toggle_show_node_values(Self), row).text

\* C16  Node identifiers are unique per displayed node: two different
\* nodes of the displayed tree, the root with its empty key included, never
\* get the same node identifier, whatever strings the keys are.
C16_NodeIdsUnique ==
    \A n1, n2 \in Nodes(Self) :
        n1.segs # n2.segs
            => node_id(n1.path, n1.key) # node_id(n2.path, n2.key)

\* C17  The root document is immutable once loaded: NavigateTo, GoBack,
\* clicks, double clicks, option toggles and failed loads leave it
\* unchanged; a successful load replaces it by the parsed document.
C17_RootImmutable ==
    [][IF ev'.op = "load_file" /\ ev'.result = "ok"
       THEN root_data' = from_str(read_to_string(ev'.path).content).value
       ELSE root_data' = root_data]_vars

\* Deep in a loaded document, after navigation, expansion and a click on a
\* scalar, the root is still the document loaded.
C17_Witness ==
    /\ ev.op = "click_scalar"
    /\ navigation_path # <<>>
    /\ root_data = DocA
    /\ current_data # root_data
    /\ current_file_path = SomePath("a.json")

\* C18  NavigateTo never fails and always terminates: for any requested
\* path it completes after at most one loop iteration per requested
\* segment, with a current subtree and its pretty-printed text in place;
\* with no document loaded it leaves every field unchanged.
C18_NavigateCompletes ==
    [][ev'.op = "navigate_to_path" =>
          IF root_data = None
          THEN UNCHANGED <<root_data, current_data, navigation_path,
                           expanded_nodes, selected_json, current_file_path>>
          ELSE /\ ev'.steps <= Len(ev'.path)
               /\ Len(navigation_path') <= ev'.steps
               /\ current_data' # None
               /\ selected_json' = to_string_pretty(current_data')]_vars

\* NavigateTo ran with a path of four segments before any document was
\* loaded.
C18_Witness ==
    /\ ev.op = "navigate_to_path"
    /\ root_data = None
    /\ Len(ev.path) = 4
    /\ navigation_path = <<>>

\* NavigateTo used all four iterations on a path whose last segment is
\* asked of a scalar.
C18_WitnessSteps ==
    /\ ev.op = "navigate_to_path"
    /\ root_data # None
    /\ ev.steps = 4
    /\ Len(navigation_path) = 3

====
